---- MODULE Spec2Model ----
(***************************************************************************)
(* Model of crates/mun_codegen/src/code_gen.rs: ModuleBuilder::new,        *)
(* ModuleBuilder::finalize, assembly_output_path and the global emitters   *)
(* (intern_string, gen_global, gen_string_array, gen_struct_ptr_array,     *)
(* gen_u16_array).                                                         *)
(*                                                                         *)
(* Strings that end up in the LLVM module are sequences of character       *)
(* codes; paths are sequences of one-character strings.  A pointer value   *)
(* is [ty, idx]: idx is the 1-based position of the global it points to in *)
(* the module's list of globals, 0 for the null pointer.                   *)
(***************************************************************************)
EXTENDS Integers, Sequences, FiniteSets, TLC

VARIABLES
    db,         \* the IrDatabase: inputs, the registered module, the module_ir memo
    builder,    \* the ModuleBuilder value: state, error of new, id of its module
    modules,    \* contents of the inkwell modules created so far, by id
    pc,         \* position inside ModuleBuilder::finalize
    loc,        \* locals of the running finalize call: out_dir, obj, output_path
    tmp,        \* the NamedTempFile of the running finalize call
    linker,     \* the linker of the running finalize call
    fs,         \* the file at the computed output path
    result,     \* what the last finalize call returned
    trace,      \* steps executed by the running/last finalize call, with outcome
    emitted,    \* module contents handed to write_to_memory_buffer, per call
    calls,      \* number of finalize calls started
    call        \* last call of a free function (helper specifications)

vars == <<db, builder, modules, pc, loc, tmp, linker, fs, result, trace,
          emitted, calls, call>>

builderVars == <<db, builder, modules, pc, loc, tmp, linker, fs, result, trace,
                 emitted, calls>>

-----------------------------------------------------------------------------
(* Bounds *)

MaxFuncs == 2        \* functions in the file's IR
MaxCalls == 2        \* finalize calls in one run
MaxBuilders == 2     \* ModuleBuilder::new calls in one run
MaxPathLen == 5      \* characters of a relative path
MaxItems == 2        \* items handed to an array builder
MaxGlobals == 4      \* globals in a module before an array builder is called

-----------------------------------------------------------------------------
(* Paths *)

PathChars == {"a", ".", "/"}

StrUpTo(S, n) == UNION {[1..k -> S] : k \in 0..n}

None == [some |-> FALSE, v |-> <<>>]
Some(x) == [some |-> TRUE, v |-> x]

RECURSIVE SplitSlash(_, _, _)
\* The "/"-separated pieces of s, empty ones included.
SplitSlash(s, cur, acc) ==
    IF s = <<>> THEN Append(acc, cur)
    ELSE IF Head(s) = "/" THEN SplitSlash(Tail(s), <<>>, Append(acc, cur))
    ELSE SplitSlash(Tail(s), Append(cur, Head(s)), acc)

\* RelativePath::components: the non-empty pieces.
components(rel) ==
    SelectSeq(SplitSlash(rel, <<>>, <<>>), LAMBDA c : c # <<>>)

\* RelativePath::file_name: the last component when it is a normal one.
file_name(rel) ==
    LET cs == components(rel) IN
    IF cs = <<>> THEN None
    ELSE LET l == cs[Len(cs)] IN
         IF l = <<".">> \/ l = <<".", ".">> THEN None ELSE Some(l)

\* Position of the last "." of s, 0 when there is none.
LastDot(s) ==
    LET D == {i \in 1..Len(s) : s[i] = "."} IN
    IF D = {} THEN 0 ELSE CHOOSE i \in D : \A j \in D : j <= i

\* Path::file_stem of a single-component path.
file_stem(name) ==
    IF name = <<".", ".">> THEN name
    ELSE IF LastDot(name) <= 1 THEN name
    ELSE SubSeq(name, 1, LastDot(name) - 1)

\* Path::with_extension (PathBuf::set_extension on a copy).
with_extension(name, ext) ==
    IF name = <<>> \/ name = <<".">> \/ name = <<".", ".">> THEN name
    ELSE file_stem(name) \o (IF ext = <<>> THEN <<>> ELSE <<".">> \o ext)

\* Path::join (PathBuf::push on a copy).
join(dir, p) ==
    IF p # <<>> /\ Head(p) = "/" THEN p
    ELSE IF dir # <<>> /\ dir[Len(dir)] # "/" THEN dir \o <<"/">> \o p
    ELSE dir \o p

Munlib == <<"m", "u", "n", "l", "i", "b">>

Panic == [panic |-> TRUE, path |-> <<>>]
Path(p) == [panic |-> FALSE, path |-> p]

assembly_output_path_whole(relative_path, out_dir) ==
    LET output_file_name == with_extension(relative_path, Munlib) IN
    IF file_name(relative_path).some = FALSE THEN Panic
    ELSE IF out_dir.some THEN Path(join(out_dir.v, output_file_name))
    ELSE Path(output_file_name)

\* assembly_output_path, given db.file_relative_path(file_id) and out_dir.
assembly_output_path(relative_path, out_dir) ==
    LET fname == file_name(relative_path) IN
    IF fname.some = FALSE THEN Panic     \* .unwrap() of None
    ELSE LET output_file_name == with_extension(fname.v, Munlib) IN
         IF out_dir.some THEN Path(join(out_dir.v, output_file_name))
         ELSE Path(output_file_name)

-----------------------------------------------------------------------------
(* The inkwell module and the global emitters *)

U16Mod == 65536      \* i16_type().const_int(i, false) keeps the low 16 bits

\* Context::create_module(name): no globals, no functions, no target yet.
create_module(name) ==
    [name |-> name, target |-> "unset", globals |-> <<>>, functions |-> <<>>,
     optimized |-> -1]

\* Context::const_string(string, true): the bytes and the terminating nul.
const_string(string) == [kind |-> "i8_array", elems |-> string \o <<0>>]

\* gen_global: add_global and the four setters; returns the new global.
gen_global(module, value, name) ==
    LET g == [name |-> name, linkage |-> "Private", constant |-> TRUE,
              unnamed_addr |-> "Global", init |-> value]
    IN [module |-> [module EXCEPT !.globals = Append(@, g)],
        global |-> Len(module.globals) + 1]

\* GlobalValue::as_pointer_value
as_pointer_value(ty, global) == [ty |-> ty, idx |-> global]

const_null(ty) == [ty |-> ty, idx |-> 0]

\* intern_string
intern_string(module, string, name) ==
    LET r == gen_global(module, const_string(string), name)
    IN [module |-> r.module, ret |-> as_pointer_value("i8*", r.global)]

RECURSIVE InternAll(_, _, _, _)
\* strings.map(|s| intern_string(module, &s, name)).collect()
InternAll(module, strings, name, acc) ==
    IF strings = <<>> THEN [module |-> module, ptrs |-> acc]
    ELSE LET r == intern_string(module, Head(strings), name)
         IN InternAll(r.module, Tail(strings), name, Append(acc, r.ret))

Idxs(ptrs) == [i \in 1..Len(ptrs) |-> ptrs[i].idx]

gen_string_array_alloc(module, strings, name) ==
    LET r == InternAll(module, strings, name, <<>>)
        strings_ir == [kind |-> "i8*_array", elems |-> Idxs(r.ptrs)]
        g == gen_global(r.module, strings_ir, "")
    IN [module |-> g.module, ret |-> as_pointer_value("i8**", g.global)]

\* gen_string_array
gen_string_array(module, strings, name) ==
    IF strings = <<>> THEN [module |-> module, ret |-> const_null("i8**")]
    ELSE LET r == InternAll(module, strings, name, <<>>)
             strings_ir == [kind |-> "i8*_array", elems |-> Idxs(r.ptrs)]
             g == gen_global(r.module, strings_ir, "")
         IN [module |-> g.module, ret |-> as_pointer_value("i8**", g.global)]

\* gen_struct_ptr_array
gen_struct_ptr_array(module, ir_type, ptrs, name) ==
    IF ptrs = <<>> THEN [module |-> module, ret |-> const_null(ir_type \o "**")]
    ELSE LET ptr_array_ir == [kind |-> ir_type \o "*_array", elems |-> Idxs(ptrs)]
             g == gen_global(module, ptr_array_ir, name)
         IN [module |-> g.module, ret |-> as_pointer_value(ir_type \o "**", g.global)]

\* gen_u16_array
gen_u16_array(module, integers) ==
    IF integers = <<>> THEN [module |-> module, ret |-> const_null("i16*")]
    ELSE LET ints == [i \in 1..Len(integers) |-> integers[i] % U16Mod]
             array_ir == [kind |-> "i16_array", elems |-> ints]
             g == gen_global(module, array_ir, "")
         IN [module |-> g.module, ret |-> as_pointer_value("i16*", g.global)]

-----------------------------------------------------------------------------
(* Calls of the free functions on inputs drawn from bounded sets *)

NoCall == [op |-> "none"]

OutDirs == {None, Some(<<>>), Some(<<"o">>), Some(<<"o", "/">>)}

\* Strings handed to the emitters: "f", "g", "fg" as character codes.
Strings == {<<102>>, <<103>>, <<102, 103>>}

\* u64 items around the 16-bit boundary.
U64Items == {0, 7, 65535, 65536, 65543}

RECURSIVE PreModule(_)
\* A module that already holds k interned strings.
PreModule(k) ==
    IF k = 0 THEN create_module("m")
    ELSE intern_string(PreModule(k - 1), <<102>>, "pre").module

\* Pointers a caller can hold into module m: null or one of its globals.
PtrsInto(m) == {as_pointer_value("T*", i) : i \in 0..Len(m.globals)}

HelperInit ==
    /\ db = [file_relative_path |-> <<>>]
    /\ builder = [state |-> "none"]
    /\ modules = <<>>
    /\ pc = "idle"
    /\ loc = [out_dir |-> None]
    /\ tmp = [exists |-> FALSE, content |-> <<>>]
    /\ linker = [created |-> FALSE]
    /\ fs = "absent"
    /\ result = [kind |-> "none"]
    /\ trace = <<>>
    /\ emitted = <<>>
    /\ calls = 0

PathInit ==
    /\ HelperInit
    /\ call = NoCall

\* assembly_output_path(db, file_id, out_dir)
CallAssemblyOutputPath ==
    /\ call.op = "none"
    /\ \E rel \in StrUpTo(PathChars, MaxPathLen), out_dir \in OutDirs :
          call' = [op |-> "assembly_output_path", relative_path |-> rel,
                   out_dir |-> out_dir, ret |-> assembly_output_path(rel, out_dir)]
    /\ UNCHANGED builderVars

PathNext == CallAssemblyOutputPath

SpecPath == PathInit /\ [][PathNext]_vars

ArrInit ==
    /\ HelperInit
    /\ \E k \in 0..MaxGlobals :
          call = [op |-> "none", before |-> PreModule(k), after |-> PreModule(k)]

Called(op, before, input, r) ==
    [op |-> op, before |-> before, input |-> input, after |-> r.module, ret |-> r.ret]

CallGenStringArray ==
    /\ call.op = "none"
    /\ \E strings \in StrUpTo(Strings, MaxItems) :
          call' = Called("gen_string_array", call.after, strings,
                         gen_string_array(call.after, strings, "s"))
    /\ UNCHANGED builderVars

CallGenStructPtrArray ==
    /\ call.op = "none"
    /\ \E ptrs \in StrUpTo(PtrsInto(call.after), MaxItems) :
          call' = Called("gen_struct_ptr_array", call.after, ptrs,
                         gen_struct_ptr_array(call.after, "T", ptrs, "p"))
    /\ UNCHANGED builderVars

CallGenU16Array ==
    /\ call.op = "none"
    /\ \E integers \in StrUpTo(U64Items, MaxItems) :
          call' = Called("gen_u16_array", call.after, integers,
                         gen_u16_array(call.after, integers))
    /\ UNCHANGED builderVars

ArrNext == CallGenStringArray \/ CallGenStructPtrArray \/ CallGenU16Array

SpecArr == ArrInit /\ [][ArrNext]_vars

-----------------------------------------------------------------------------
(* External collaborators of ModuleBuilder, modelled at their interface *)

\* Triples Target::from_triple resolves once the x86 target is initialized.
KnownTriples == {"x86_64-unknown-linux-gnu"}

Targets == [llvm_target : KnownTriples \cup {"not-a-real-triple"},
            features : {"", "+unsupported"}]

\* TargetMachine creation yields None for a feature set the target lacks.
create_target_machine(target) ==
    IF target.features = "" THEN Some(target) ELSE None

FnNames == {<<102>>, <<103>>}

OptLevels == {0, 3}

\* db.module_ir(file_id): a memoized query that lowers the file's functions
\* into the module registered in the database, once per registered module.
module_ir(d, ms) ==
    IF d.ir_memo = d.module THEN [db |-> d, modules |-> ms]
    ELSE [db |-> [d EXCEPT !.ir_memo = d.module],
          modules |-> [ms EXCEPT ![d.module].functions = @ \o d.functions]]

\* symbols::gen_reflection_ir: a copy of every function's name, the array
\* of function descriptors, the dispatch slots, and the get_info entry point.
gen_reflection_ir(module, functions) ==
    LET names == InternAll(module, functions, "fn_name", <<>>)
        infos == gen_struct_ptr_array(names.module, "FunctionInfo", names.ptrs,
                                      "fn_infos")
        slots == gen_u16_array(infos.module, [i \in 1..Len(functions) |-> i - 1])
    IN [slots.module EXCEPT !.functions = Append(@, <<103, 101, 116>>)]

\* The object code of a module: a header byte and the two section sizes.
ObjBytes(module) == <<127, Len(module.functions), Len(module.globals)>>

\* linker::create_with_target
create_with_target(target) ==
    [created |-> TRUE, objects |-> <<>>, built |-> FALSE, linked |-> <<>>,
     finalized |-> FALSE]

NoLinker ==
    [created |-> FALSE, objects |-> <<>>, built |-> FALSE, linked |-> <<>>,
     finalized |-> FALSE]

\* Linker::build_shared_object: what is at the output path afterwards.
build_shared_object(old, outcome, n) ==
    CASE outcome = "ok" -> [kind |-> "complete", call |-> n]
      [] outcome = "partial" -> [kind |-> "partial", call |-> n]
      [] OTHER -> old

-----------------------------------------------------------------------------
(* ModuleBuilder *)

\* optimize_module: the default passes of the level, run once over the module.
optimize_module(module, optimization_lvl) ==
    [module EXCEPT !.optimized = optimization_lvl]

FinalizeOutDirs == {None, Some(<<"o">>)}

OutPaths == {assembly_output_path(<<"a", "/", "a", ".", "a">>, d).path :
                d \in FinalizeOutDirs}

NoTmp == [exists |-> FALSE, content |-> <<>>]
NoLoc == [out_dir |-> None, obj |-> <<>>, output_path |-> <<>>]
NoResult == [kind |-> "none", err |-> "", cause |-> "", path |-> <<>>]
Ok(p) == [kind |-> "Ok", err |-> "", cause |-> "", path |-> p]
Err(e, c) == [kind |-> "Err", err |-> e, cause |-> c, path |-> <<>>]

Init ==
    /\ \E t \in Targets, fns \in StrUpTo(FnNames, MaxFuncs), lvl \in OptLevels :
          db = [target |-> t, functions |-> fns, optimization_lvl |-> lvl,
                file_relative_path |-> <<"a", "/", "a", ".", "a">>,
                module |-> 0, ir_memo |-> 0]
    /\ builder = [state |-> "none", err |-> "", module |-> 0, n |-> 0]
    /\ modules = <<>>
    /\ pc = "idle"
    /\ loc = NoLoc
    /\ tmp = NoTmp
    /\ linker = NoLinker
    /\ fs = [p \in OutPaths |-> [kind |-> "absent", call |-> 0]]
    /\ result = NoResult
    /\ trace = <<>>
    /\ emitted = <<>>
    /\ calls = 0
    /\ call = NoCall

NewEarlyRegister ==
    /\ builder.state = "none"
    /\ builder.n < MaxBuilders
    /\ pc \in {"idle", "returned"}
    /\ LET id == Len(modules) + 1
           known == db.target.llvm_target \in KnownTriples
           err == IF ~known THEN "UnknownTargetTriple"
                  ELSE IF ~create_target_machine(db.target).some
                       THEN "CouldNotCreateTargetMachine" ELSE ""
       IN /\ modules' = Append(modules, create_module(db.file_relative_path))
          /\ db' = [db EXCEPT !.module = id]
          /\ builder' = [state |-> IF err = "" THEN "built" ELSE "failed",
                         err |-> err, module |-> id, n |-> builder.n + 1]
    /\ UNCHANGED <<pc, loc, tmp, linker, fs, result, trace, emitted, calls, call>>

\* ModuleBuilder::new
New ==
    /\ builder.state = "none"
    /\ builder.n < MaxBuilders
    /\ pc \in {"idle", "returned"}
    /\ LET id == Len(modules) + 1
           assembly_module == create_module(db.file_relative_path)
       IN IF db.target.llvm_target \notin KnownTriples
          THEN /\ modules' = Append(modules, assembly_module)
               /\ builder' = [state |-> "failed", err |-> "UnknownTargetTriple",
                              module |-> 0, n |-> builder.n + 1]
               /\ db' = db
          ELSE IF ~create_target_machine(db.target).some
          THEN /\ modules' = Append(modules,
                      [assembly_module EXCEPT !.target = db.target.llvm_target])
               /\ builder' = [state |-> "failed",
                              err |-> "CouldNotCreateTargetMachine",
                              module |-> 0, n |-> builder.n + 1]
               /\ db' = db
          ELSE /\ modules' = Append(modules,
                      [assembly_module EXCEPT !.target = db.target.llvm_target])
               /\ db' = [db EXCEPT !.module = id]
               /\ builder' = [state |-> "built", err |-> "", module |-> id,
                              n |-> builder.n + 1]
    /\ UNCHANGED <<pc, loc, tmp, linker, fs, result, trace, emitted, calls, call>>

\* The caller drops the builder (or the error of new) between calls.
DropBuilder ==
    /\ builder.state \in {"built", "failed"}
    /\ pc \in {"idle", "returned"}
    /\ builder' = [builder EXCEPT !.state = "none", !.err = "", !.module = 0]
    /\ UNCHANGED <<db, modules, pc, loc, tmp, linker, fs, result, trace,
                   emitted, calls, call>>

StepOrderReflectLast ==
    <<"module_ir", "optimize_module", "gen_reflection_ir",
      "write_to_memory_buffer", "tempfile_new", "write", "create_with_target",
      "add_object", "assembly_output_path", "build_shared_object",
      "linker_finalize">>

\* The statements of finalize, in program order.
StepOrder ==
    <<"module_ir", "gen_reflection_ir", "optimize_module",
      "write_to_memory_buffer", "tempfile_new", "write", "create_with_target",
      "add_object", "assembly_output_path", "build_shared_object",
      "linker_finalize">>

After(step) ==
    LET i == CHOOSE k \in 1..Len(StepOrder) : StepOrder[k] = step
    IN IF i = Len(StepOrder) THEN "returned" ELSE StepOrder[i + 1]

Did(step, ok) == trace' = Append(trace, [step |-> step, ok |-> ok])

ReturnKeepTmp(res) ==
    /\ result' = res
    /\ pc' = "returned"
    /\ tmp' = tmp

\* Leaving finalize, by `?` or at the end: the value is returned and the
\* locals are dropped; dropping the NamedTempFile removes the file.
Return(res) ==
    /\ result' = res
    /\ pc' = "returned"
    /\ tmp' = [tmp EXCEPT !.exists = FALSE]

\* A call of finalize(out_dir) on the builder.
FinalizeCall ==
    /\ builder.state = "built"
    /\ pc \in {"idle", "returned"}
    /\ calls < MaxCalls
    /\ \E out_dir \in FinalizeOutDirs : loc' = [NoLoc EXCEPT !.out_dir = out_dir]
    /\ pc' = StepOrder[1]
    /\ calls' = calls + 1
    /\ tmp' = NoTmp
    /\ linker' = NoLinker
    /\ result' = NoResult
    /\ trace' = <<>>
    /\ UNCHANGED <<db, builder, modules, fs, emitted, call>>

\* let module = self.db.module_ir(self.file_id);
ModuleIr ==
    /\ pc = "module_ir"
    /\ LET r == module_ir(db, modules)
       IN db' = r.db /\ modules' = r.modules
    /\ Did("module_ir", TRUE)
    /\ pc' = After("module_ir")
    /\ UNCHANGED <<builder, loc, tmp, linker, fs, result, emitted, calls, call>>

\* symbols::gen_reflection_ir(self.db, &self.assembly_module, ...)
GenReflection ==
    /\ pc = "gen_reflection_ir"
    /\ modules' = [modules EXCEPT
                     ![builder.module] = gen_reflection_ir(@, db.functions)]
    /\ Did("gen_reflection_ir", TRUE)
    /\ pc' = After("gen_reflection_ir")
    /\ UNCHANGED <<db, builder, loc, tmp, linker, fs, result, emitted, calls, call>>

\* optimize_module(&self.assembly_module, self.db.optimization_lvl())
Optimize ==
    /\ pc = "optimize_module"
    /\ modules' = [modules EXCEPT
                     ![builder.module] = optimize_module(@, db.optimization_lvl)]
    /\ Did("optimize_module", TRUE)
    /\ pc' = After("optimize_module")
    /\ UNCHANGED <<db, builder, loc, tmp, linker, fs, result, emitted, calls, call>>

\* self.target_machine.write_to_memory_buffer(...).map_err(...)?
EmitObject ==
    /\ pc = "write_to_memory_buffer"
    /\ emitted' = Append(emitted, modules[builder.module])
    /\ \/ /\ Did("write_to_memory_buffer", TRUE)
          /\ loc' = [loc EXCEPT !.obj = ObjBytes(modules[builder.module])]
          /\ pc' = After("write_to_memory_buffer")
          /\ UNCHANGED <<tmp, result>>
       \/ /\ Did("write_to_memory_buffer", FALSE)
          /\ Return(Err("CodeGenerationError", "llvm message"))
          /\ loc' = loc
    /\ UNCHANGED <<db, builder, modules, linker, fs, calls, call>>

\* tempfile::NamedTempFile::new().map_err(...)?
CreateTempFile ==
    /\ pc = "tempfile_new"
    /\ \/ /\ Did("tempfile_new", TRUE)
          /\ tmp' = [exists |-> TRUE, content |-> <<>>]
          /\ pc' = After("tempfile_new")
          /\ result' = result
       \/ /\ Did("tempfile_new", FALSE)
          /\ Return(Err("CouldNotCreateObjectFile", "io: create"))
    /\ UNCHANGED <<db, builder, modules, loc, linker, fs, emitted, calls, call>>

\* obj_file.write(obj.as_slice()).map_err(...)?  Write::write returns Ok(n)
\* after writing any n <= len bytes of the buffer.
WriteObject ==
    /\ pc = "write"
    /\ \/ \E n \in 0..Len(loc.obj) :
             /\ Did("write", TRUE)
             /\ tmp' = [tmp EXCEPT !.content = SubSeq(loc.obj, 1, n)]
             /\ pc' = After("write")
             /\ result' = result
       \/ /\ Did("write", FALSE)
          /\ Return(Err("CouldNotCreateObjectFile", "io: write"))
    /\ UNCHANGED <<db, builder, modules, loc, linker, fs, emitted, calls, call>>

\* let mut linker = linker::create_with_target(&target);
CreateLinker ==
    /\ pc = "create_with_target"
    /\ linker' = create_with_target(db.target)
    /\ Did("create_with_target", TRUE)
    /\ pc' = After("create_with_target")
    /\ UNCHANGED <<db, builder, modules, loc, tmp, fs, result, emitted, calls, call>>

AddObjectIgnoreError ==
    /\ pc = "add_object"
    /\ \E ok \in BOOLEAN :
          /\ Did("add_object", ok)
          /\ linker' = IF ok THEN [linker EXCEPT !.objects = Append(@, "obj_file")]
                       ELSE linker
    /\ pc' = After("add_object")
    /\ UNCHANGED <<db, builder, modules, loc, tmp, fs, result, emitted, calls, call>>

\* linker.add_object(obj_file.path())?;
AddObject ==
    /\ pc = "add_object"
    /\ \/ /\ Did("add_object", TRUE)
          /\ linker' = [linker EXCEPT !.objects = Append(@, "obj_file")]
          /\ pc' = After("add_object")
          /\ UNCHANGED <<tmp, result>>
       \/ /\ Did("add_object", FALSE)
          /\ Return(Err("LinkerError", "add_object"))
          /\ linker' = linker
    /\ UNCHANGED <<db, builder, modules, loc, fs, emitted, calls, call>>

\* let output_path = assembly_output_path(self.db, self.file_id, out_dir);
ComputeOutputPath ==
    /\ pc = "assembly_output_path"
    /\ loc' = [loc EXCEPT !.output_path =
                 assembly_output_path(db.file_relative_path, loc.out_dir).path]
    /\ Did("assembly_output_path", TRUE)
    /\ pc' = After("assembly_output_path")
    /\ UNCHANGED <<db, builder, modules, tmp, linker, fs, result, emitted, calls, call>>

\* linker.build_shared_object(&output_path)?;
BuildSharedObject ==
    /\ pc = "build_shared_object"
    /\ \E outcome \in {"ok", "partial", "nothing"} :
          /\ fs' = [fs EXCEPT ![loc.output_path] =
                       build_shared_object(@, outcome, calls)]
          /\ Did("build_shared_object", outcome = "ok")
          /\ IF outcome = "ok"
             THEN /\ linker' = [linker EXCEPT !.built = TRUE,
                                              !.linked = tmp.content]
                  /\ pc' = After("build_shared_object")
                  /\ UNCHANGED <<tmp, result>>
             ELSE /\ Return(Err("LinkerError", "build_shared_object"))
                  /\ linker' = linker
    /\ UNCHANGED <<db, builder, modules, loc, emitted, calls, call>>

\* linker.finalize()?; Ok(output_path)
LinkerFinalize ==
    /\ pc = "linker_finalize"
    /\ linker' = [linker EXCEPT !.finalized = TRUE]
    /\ \/ /\ Did("linker_finalize", TRUE)
          /\ Return(Ok(loc.output_path))
       \/ /\ Did("linker_finalize", FALSE)
          /\ Return(Err("LinkerError", "finalize"))
    /\ UNCHANGED <<db, builder, modules, loc, fs, emitted, calls, call>>

Next ==
    \/ New
    \/ DropBuilder
    \/ FinalizeCall
    \/ ModuleIr
    \/ GenReflection
    \/ Optimize
    \/ EmitObject
    \/ CreateTempFile
    \/ WriteObject
    \/ CreateLinker
    \/ AddObject
    \/ ComputeOutputPath
    \/ BuildSharedObject
    \/ LinkerFinalize

Spec == Init /\ [][Next]_vars

-----------------------------------------------------------------------------
(* Properties *)

Range(f) == {f[i] : i \in DOMAIN f}
Steps == {trace[i].step : i \in 1..Len(trace)}
InCall == pc \notin {"idle", "returned"}

ClaimOrder ==
    <<"module_ir", "gen_reflection_ir", "optimize_module",
      "write_to_memory_buffer", "write", "add_object", "build_shared_object",
      "linker_finalize">>

OrderedSteps ==
    LET proj == SelectSeq(trace, LAMBDA e : e.step \in Range(ClaimOrder))
    IN /\ Len(proj) <= Len(ClaimOrder)
       /\ \A i \in 1..Len(proj) : proj[i].step = ClaimOrder[i]
       /\ (InCall /\ pc \in Range(ClaimOrder)) => pc = ClaimOrder[Len(proj) + 1]

NoAdditionAfterOptimizer ==
    (InCall /\ "optimize_module" \in Steps) =>
        /\ modules'[builder.module].globals = modules[builder.module].globals
        /\ modules'[builder.module].functions = modules[builder.module].functions

\* C1: within one finalize call the steps module_ir, gen_reflection_ir,
\* optimize_module, object emission, write to the temporary file, add_object,
\* build_shared_object and linker finalize run in exactly this order, one at
\* a time, and after the optimizer has run nothing adds a global or a
\* function to the builder's module during that call.
C1_StepOrder == [](OrderedSteps) /\ [][NoAdditionAfterOptimizer]_vars

C1_Witness ==
    /\ pc = "returned"
    /\ result.kind = "Ok"
    /\ Len(trace) = Len(StepOrder)
    /\ Len(db.functions) = 2
    /\ Len(modules[builder.module].globals) = 4

NewOutcome ==
    (builder.state = "none" /\ builder'.state # "none") =>
        /\ db.target.llvm_target \notin KnownTriples =>
              builder'.state = "failed" /\ builder'.err = "UnknownTargetTriple"
        /\ builder'.state = "failed" =>
              /\ builder'.err \in {"UnknownTargetTriple",
                                   "CouldNotCreateTargetMachine"}
              /\ db'.module = db.module
              /\ tmp' = tmp /\ ~tmp'.exists
        /\ db'.module # db.module => builder'.state = "built"

\* C2: ModuleBuilder::new on an unrecognized triple fails with
\* UnknownTargetTriple; when new fails (with that error or with
\* CouldNotCreateTargetMachine) no temporary file exists and the database's
\* module slot is what it was; the slot changes only when new succeeds.
C2_NewFailureIsolated == [][NewOutcome]_vars

C2_Witness ==
    /\ builder.state = "failed"
    /\ builder.err = "UnknownTargetTriple"
    /\ db.module = 0
    /\ Len(modules) = 1

HasSlash(p) == \E i \in 1..Len(p) : p[i] = "/"

\* The stem a file name keeps when its extension is replaced: everything
\* before its last "." unless that "." is its first character or absent.
KeptStem(fname) ==
    IF \E i \in 2..Len(fname) : fname[i] = "."
    THEN CHOOSE st \in {SubSeq(fname, 1, k) : k \in 1..Len(fname)} :
            \E ext \in {SubSeq(fname, k, Len(fname)) : k \in 2..(Len(fname) + 1)} :
               /\ fname = st \o <<".">> \o ext
               /\ \A i \in 1..Len(ext) : ext[i] # "."
    ELSE fname

PathRule(relative_path, out_dir, ret) ==
    LET fname == file_name(relative_path).v
        base == KeptStem(fname) \o <<".">> \o Munlib
    IN /\ ~ret.panic
       /\ ~HasSlash(base)
       /\ IF out_dir.some /\ out_dir.v # <<>>
          THEN \/ ret.path = out_dir.v \o <<"/">> \o base
               \/ out_dir.v[Len(out_dir.v)] = "/" /\ ret.path = out_dir.v \o base
          ELSE ret.path = base

\* C3 as stated: for every relative path and every optional output directory
\* assembly_output_path returns the base file name with its extension
\* replaced by munlib, under the output directory when one is given.
C3_EveryRelativePath ==
    call.op = "assembly_output_path" =>
        PathRule(call.relative_path, call.out_dir, call.ret)

\* C3 amended: the same, for every relative path that has a file name (its
\* last component is neither missing nor "." nor ".."); for the others the
\* function panics.
C3_PathsWithFileName ==
    call.op = "assembly_output_path" =>
        IF file_name(call.relative_path).some
        THEN PathRule(call.relative_path, call.out_dir, call.ret)
        ELSE call.ret.panic

C3_Witness ==
    /\ call.op = "assembly_output_path"
    /\ call.relative_path = <<"a", "/", "a", ".", "a">>
    /\ call.out_dir = Some(<<"o">>)
    /\ call.ret = Path(<<"o", "/", "a", ".">> \o Munlib)

IsArrayCall ==
    call.op \in {"gen_string_array", "gen_struct_ptr_array", "gen_u16_array"}

NullType ==
    CASE call.op = "gen_string_array" -> "i8**"
      [] call.op = "gen_struct_ptr_array" -> "T**"
      [] OTHER -> "i16*"

ItemAt(i) ==
    LET e == call.after.globals[call.ret.idx].init.elems[i]
    IN CASE call.op = "gen_string_array" ->
              /\ e \in (Len(call.before.globals) + 1)..Len(call.after.globals)
              /\ call.after.globals[e].init.elems = call.input[i] \o <<0>>
         [] call.op = "gen_struct_ptr_array" -> e = call.input[i].idx
         [] OTHER -> e \in 0..(U16Mod - 1) /\ (call.input[i] - e) % U16Mod = 0

\* C4: each array builder returns a typed null pointer and leaves the
\* module's globals alone on an empty input; on a non-empty input it returns
\* a non-null pointer to a global added by the call, an array with one
\* element per input item, in input order.
C4_ArrayBuilders ==
    IsArrayCall =>
        IF call.input = <<>>
        THEN /\ call.ret = [ty |-> NullType, idx |-> 0]
             /\ call.after.globals = call.before.globals
        ELSE /\ call.ret.idx \in
                    (Len(call.before.globals) + 1)..Len(call.after.globals)
             /\ SubSeq(call.after.globals, 1, Len(call.before.globals))
                    = call.before.globals
             /\ Len(call.after.globals[call.ret.idx].init.elems) = Len(call.input)
             /\ \A i \in 1..Len(call.input) : ItemAt(i)

C4_Witness ==
    /\ call.op = "gen_u16_array"
    /\ call.input = <<65543, 7>>
    /\ Len(call.before.globals) = 1
    /\ call.ret.idx = 2
    /\ call.after.globals[2].init.elems = <<7, 7>>

\* C5: whenever finalize returns after creating a linker, the linker's
\* finalize has been invoked.
C5_LinkerAlwaysFinalized ==
    (pc = "returned" /\ linker.created) => linker.finalized

LinkerSteps ==
    {"add_object", "assembly_output_path", "build_shared_object",
     "linker_finalize"}

\* C6: the temporary object file exists while add_object, build_shared_object
\* and the linker's finalize run, and is gone once finalize has returned.
C6_TempFileLifetime ==
    /\ pc \in LinkerSteps => tmp.exists
    /\ pc = "returned" => ~tmp.exists

C6_Witness ==
    /\ pc = "returned"
    /\ \E i \in 1..Len(trace) : trace[i] = [step |-> "tempfile_new", ok |-> TRUE]
    /\ result = Err("LinkerError", "build_shared_object")
    /\ ~tmp.exists

ErrKindOf(step) ==
    CASE step = "write_to_memory_buffer" -> "CodeGenerationError"
      [] step \in {"tempfile_new", "write"} -> "CouldNotCreateObjectFile"
      [] step \in {"add_object", "build_shared_object", "linker_finalize"} ->
            "LinkerError"
      [] OTHER -> "none"

\* C7: a failed step is the last step finalize executes and finalize returns
\* that step's error kind with its cause; no step runs twice in one call;
\* Ok(output path) is returned only after every step ran and succeeded.
C7_FailFast ==
    /\ \A i \in 1..Len(trace) :
          ~trace[i].ok =>
             /\ i = Len(trace)
             /\ pc = "returned"
             /\ result.kind = "Err"
             /\ result.err = ErrKindOf(trace[i].step)
             /\ result.cause # ""
    /\ \A i, j \in 1..Len(trace) : trace[i].step = trace[j].step => i = j
    /\ result.kind = "Err" => Len(trace) > 0 /\ ~trace[Len(trace)].ok
    /\ result.kind = "Ok" =>
          /\ pc = "returned"
          /\ Steps = Range(StepOrder)
          /\ \A i \in 1..Len(trace) : trace[i].ok
          /\ result.path =
                assembly_output_path(db.file_relative_path, loc.out_dir).path

C7_Witness ==
    /\ pc = "returned"
    /\ result = Err("CouldNotCreateObjectFile", "io: write")
    /\ Len(trace) = 6

\* C8: two invocations of finalize with the same IR, target and optimization
\* level hand modules with equal contents to object emission.
C8_SameModuleEmitted ==
    \A i, j \in 1..Len(emitted) :
        /\ emitted[i].globals = emitted[j].globals
        /\ emitted[i].functions = emitted[j].functions

\* C9: when finalize returns an error, nothing this call produced is left
\* at the output path.
C9_NoArtifactOnError ==
    (pc = "returned" /\ result.kind = "Err") =>
        \A p \in OutPaths : fs[p].kind = "absent" \/ fs[p].call # calls

\* C10: at add_object the temporary file holds exactly the emitted bytes,
\* and a successful finalize has linked exactly those bytes.
C10_WholeObjectWritten ==
    /\ pc = "add_object" => tmp.content = loc.obj
    /\ result.kind = "Ok" => linker.linked = loc.obj

====
